---- MODULE Spec2Model ----
(***************************************************************************)
(* Model of syncbot (src/src/syncbot/__init__.py): the Misskey -> Mastodon *)
(* crossposter.  The program state is the continuous loop of main driving  *)
(* MisskeyClient.stream_notes, the one-shot crosspost(config), the state   *)
(* file written by save_state, and the two remote servers as far as the    *)
(* program can observe them (the source feed, the destination's media and  *)
(* statuses).                                                              *)
(*                                                                         *)
(* Python values: None (and an absent dictionary key, which every          *)
(* note.get(...) of the source treats alike) is the empty tuple, a present *)
(* value v is <<v>>.  A text is a sequence of characters, so that the      *)
(* test '"@" in text' is computed.  Note identifiers are positive          *)
(* naturals in order of arrival at the source.                             *)
(***************************************************************************)
EXTENDS Naturals, Sequences, FiniteSets, TLC

\* ---- bounds of the model ------------------------------------------------
MaxNotes == 2
MaxRestarts == 1
MaxText == 2
MaxFiles == 3

\* ---- program constants --------------------------------------------------
StreamLimit == 10
FetchLimitDefault == 20

\* ---- Python optional values ---------------------------------------------
None == <<>>
Some(v) == <<v>>
Val(o) == o[1]

\* set of sequences over S of length at most n
RECURSIVE SeqsUpTo(_, _)
SeqsUpTo(S, n) ==
  IF n = 0 THEN {<<>>}
  ELSE LET Shorter == SeqsUpTo(S, n - 1)
       IN Shorter \cup {Append(s, c) : s \in {t \in Shorter : Len(t) = n - 1}, c \in S}

Opt(S) == {None} \cup {Some(v) : v \in S}

\* ---- the note shapes (what users/notes returns for one note) -----------
Chars == {"h", "@"}
Texts == Opt(SeqsUpTo(Chars, MaxText))
MentionSets == {None, Some(<<>>), Some(<<"u1">>)}
Visibilities == Opt({"public", "followers", "specified", "home", "unknown"})
Warnings == Opt({"", "cw"})
FileList(k) == [i \in 1..k |-> [url |-> i]]
FileLists == {None} \cup {Some(FileList(k)) : k \in 0..MaxFiles}

Shape(r, q, m, t, v, w, f) ==
  [replyId |-> r, renoteId |-> q, mentions |-> m, text |-> t,
   visibility |-> v, cw |-> w, files |-> f]

AllShapes ==
  {Shape(r, q, m, t, v, w, f) :
     r \in Opt({7}), q \in Opt({8}), m \in MentionSets, t \in Texts,
     v \in Visibilities, w \in Warnings, f \in FileLists}

\* the shapes the long-running specification publishes: one per exclusion
\* rule, a plain eligible note and an eligible note with an attachment
Plain == Shape(None, None, Some(<<>>), Some(<<"h">>), Some("home"), None, Some(<<>>))
Catalogue ==
  { Plain,
    [Plain EXCEPT !.files = Some(FileList(1)), !.visibility = Some("followers"),
                  !.cw = Some("cw")],
    [Plain EXCEPT !.replyId = Some(7)],
    [Plain EXCEPT !.renoteId = Some(8)],
    [Plain EXCEPT !.mentions = Some(<<"u1">>)],
    [Plain EXCEPT !.text = Some(<<"h", "@">>)] }

NoteOf(id, shape) ==
  [id |-> id, replyId |-> shape.replyId, renoteId |-> shape.renoteId,
   mentions |-> shape.mentions, text |-> shape.text,
   visibility |-> shape.visibility, cw |-> shape.cw, files |-> shape.files]

VARIABLES
  feed,            \* source server: the user's notes, in order of arrival
  uploads,         \* destination server: uploaded media, media id = index
  statuses,        \* destination server: created statuses, in order
  state_file,      \* crosspost_state.json: the persisted since_id
  mode,            \* "continuous" (main) or "batch" (crosspost(config))
  pc,              \* position of the single flow of control
  running,         \* MisskeyClient._running
  since_id,        \* stream_notes' local since_id
  config_since_id, \* config.since_id
  reqSince,        \* sinceId sent by the most recent get_user_notes
  lastFetch,       \* outcome of this process's most recent get_user_notes
  notes,           \* ids of the list the last get_user_notes returned
  batch,           \* the part of `notes` the for loop has not visited yet
  cur,             \* the loop variable `note`
  media_ids,       \* process_misskey_files' media_ids
  fileIdx,         \* index of the attachment the for loop is at
  outcomes,        \* what happened to each attachment of `note` so far
  newest_id,       \* crosspost's newest_id
  ev,              \* the last step the program took
  restarts,        \* number of process restarts so far
  environ,         \* os.environ: the required settings, None when unset
  config_file,     \* config.json: None when missing or not JSON
  missing_fields   \* the fields the ValueError of load_config names

vars == <<feed, uploads, statuses, state_file, mode, pc, running, since_id,
          config_since_id, reqSince, lastFetch, batch, cur, media_ids,
          fileIdx, outcomes, newest_id, ev, restarts, notes, environ,
          config_file, missing_fields>>

\* what load_config reads and reports
cfgvars == <<environ, config_file, missing_fields>>

\* ---- pure functions -----------------------------------------------------

\* should_crosspost with the reply rule left out
should_crosspost_noReply(note) ==
  IF note.renoteId # None THEN FALSE
  ELSE IF note.mentions # None /\ Val(note.mentions) # <<>>
          /\ Len(Val(note.mentions)) > 0 THEN FALSE
  ELSE IF note.text # None /\ Val(note.text) # <<>>
          /\ (\E i \in 1..Len(Val(note.text)) : Val(note.text)[i] = "@") THEN FALSE
  ELSE TRUE

\* should_crosspost with the '@' rule left out
should_crosspost_noAt(note) ==
  IF note.replyId # None THEN FALSE
  ELSE IF note.renoteId # None THEN FALSE
  ELSE IF note.mentions # None /\ Val(note.mentions) # <<>>
          /\ Len(Val(note.mentions)) > 0 THEN FALSE
  ELSE TRUE

\* should_crosspost testing 'mentions is not None' instead of its length
should_crosspost_mentionsPresent(note) ==
  IF note.replyId # None THEN FALSE
  ELSE IF note.renoteId # None THEN FALSE
  ELSE IF note.mentions # None THEN FALSE
  ELSE IF note.text # None /\ Val(note.text) # <<>>
          /\ (\E i \in 1..Len(Val(note.text)) : Val(note.text)[i] = "@") THEN FALSE
  ELSE TRUE

\* should_crosspost (lines 174-192)
should_crosspost(note) ==
  IF note.replyId # None THEN FALSE
  ELSE IF note.renoteId # None THEN FALSE
  ELSE IF note.mentions # None /\ Val(note.mentions) # <<>>
          /\ Len(Val(note.mentions)) > 0 THEN FALSE
  ELSE IF note.text # None /\ Val(note.text) # <<>>
          /\ (\E i \in 1..Len(Val(note.text)) : Val(note.text)[i] = "@") THEN FALSE
  ELSE TRUE

\* visibility_map with the home entry mapped like public
visibility_map_homePublic ==
  [v \in {"public", "followers", "specified", "home"} |->
     CASE v = "public" -> "public"
       [] v = "followers" -> "private"
       [] v = "specified" -> "direct"
       [] v = "home" -> "public"]

\* visibility_map (lines 196-201)
visibility_map ==
  [v \in {"public", "followers", "specified", "home"} |->
     CASE v = "public" -> "public"
       [] v = "followers" -> "private"
       [] v = "specified" -> "direct"
       [] v = "home" -> "unlisted"]

\* misskey_to_mastodon_visibility (lines 194-202): dict.get with a default
misskey_to_mastodon_visibility(misskey_visibility) ==
  IF misskey_visibility \in DOMAIN visibility_map
  THEN visibility_map[misskey_visibility]
  ELSE "public"

\* note.get("visibility", "public") (lines 263-265, 379-381)
note_visibility(note) ==
  IF note.visibility = None THEN "public" ELSE Val(note.visibility)

\* note.get("text", "") (lines 261, 377)
note_text(note) ==
  IF note.text = None THEN <<>> ELSE Val(note.text)

\* '"files" in note and note["files"]' (lines 255, 371)
has_files(note) ==
  note.files # None /\ Val(note.files) # <<>>

\* the JSON body create_status posts (lines 159-169): media_ids and
\* spoiler_text are sent only when truthy
status_data(note, ids) ==
  [note |-> note.id,
   status |-> note_text(note),
   visibility |-> misskey_to_mastodon_visibility(note_visibility(note)),
   media_ids |-> IF ids # <<>> THEN Some(ids) ELSE None,
   spoiler_text |-> IF note.cw # None /\ Val(note.cw) # "" THEN note.cw ELSE None]

\* users/notes (lines 59-73): the notes newer than sinceId, at most `limit`
\* of them; the server answers oldest first or newest first
RECURSIVE Reverse(_)
Reverse(s) == IF s = <<>> THEN <<>> ELSE Append(Reverse(Tail(s)), Head(s))

Newer(since) ==
  SelectSeq(feed, LAMBDA n : since = None \/ n.id > Val(since))

get_user_notes(limit, since, order) ==
  LET all == Newer(since)
      k == IF Len(all) < limit THEN Len(all) ELSE limit
  IN IF order = "asc" THEN SubSeq(all, 1, k)
     ELSE Reverse(SubSeq(all, Len(all) - k + 1, Len(all)))

FeedOrders == {"asc", "desc"}

\* the ids of a list of notes
Ids(ns) == [i \in 1..Len(ns) |-> ns[i].id]

\* ---- initial state: main has loaded a valid configuration --------------

\* required_fields (lines 298-304)
required_fields ==
  <<"misskey_instance", "misskey_token", "misskey_user_id",
    "mastodon_instance", "mastodon_token">>

RequiredSet == {required_fields[i] : i \in 1..Len(required_fields)}

Modes == {"continuous", "batch"}

\* where a process starts once load_config has returned (lines 348-366)
EntryPoint(m) == IF m = "continuous" THEN "loop" ELSE "b_fetch"

Init ==
  /\ feed = <<>>
  /\ uploads = <<>>
  /\ statuses = <<>>
  /\ state_file = None
  /\ mode \in Modes
  /\ pc = EntryPoint(mode)
  /\ running = TRUE
  /\ since_id = None
  /\ config_since_id = None
  /\ reqSince = None
  /\ lastFetch = "none"
  /\ batch = <<>>
  /\ cur = None
  /\ media_ids = <<>>
  /\ fileIdx = 0
  /\ outcomes = <<>>
  /\ newest_id = None
  /\ ev = "start"
  /\ restarts = 0
  /\ notes = <<>>
  /\ environ = [f \in RequiredSet |-> Some("env")]
  /\ config_file = None
  /\ missing_fields = <<>>

\* ---- the environment ----------------------------------------------------

\* the user publishes a note at the source
Publish ==
  /\ Len(feed) < MaxNotes
  /\ \E shape \in Catalogue : feed' = Append(feed, NoteOf(Len(feed) + 1, shape))
  /\ UNCHANGED <<notes, cfgvars>>
  /\ UNCHANGED <<uploads, statuses, state_file, mode, pc, running, since_id,
                 config_since_id, reqSince, lastFetch, batch, cur, media_ids,
                 fileIdx, outcomes, newest_id, ev, restarts>>

\* signal_handler (lines 354-357) -> stop_streaming (lines 108-110)
Signal ==
  /\ mode = "continuous"
  /\ pc # "done"
  /\ running
  /\ running' = FALSE
  /\ UNCHANGED <<notes, cfgvars>>
  /\ UNCHANGED <<feed, uploads, statuses, state_file, mode, pc, since_id,
                 config_since_id, reqSince, lastFetch, batch, cur, media_ids,
                 fileIdx, outcomes, newest_id, ev, restarts>>

\* Restart with the state file ignored: the new process starts fresh
Restart_fresh ==
  /\ restarts < MaxRestarts
  /\ restarts' = restarts + 1
  /\ pc' = EntryPoint(mode)
  /\ running' = TRUE
  /\ since_id' = None
  /\ config_since_id' = None
  /\ reqSince' = None
  /\ lastFetch' = "none"
  /\ notes' = <<>>
  /\ batch' = <<>>
  /\ cur' = None
  /\ media_ids' = <<>>
  /\ fileIdx' = 0
  /\ outcomes' = <<>>
  /\ newest_id' = None
  /\ ev' = "restart"
  /\ UNCHANGED cfgvars
  /\ UNCHANGED <<feed, uploads, statuses, state_file, mode>>

\* the process dies at any point and is started again: load_config reads
\* since_id back from the state file (lines 326-335), main passes it to
\* stream_notes (lines 364-366), crosspost to get_user_notes (lines 241-243)
Restart ==
  /\ restarts < MaxRestarts
  /\ restarts' = restarts + 1
  /\ pc' = EntryPoint(mode)
  /\ running' = TRUE
  /\ since_id' = state_file
  /\ config_since_id' = state_file
  /\ reqSince' = None
  /\ lastFetch' = "none"
  /\ notes' = <<>>
  /\ batch' = <<>>
  /\ cur' = None
  /\ media_ids' = <<>>
  /\ fileIdx' = 0
  /\ outcomes' = <<>>
  /\ newest_id' = None
  /\ ev' = "restart"
  /\ UNCHANGED cfgvars
  /\ UNCHANGED <<feed, uploads, statuses, state_file, mode>>

\* ---- load_config (lines 282-335) ---------------------------------------

\* lines 287-292: the required settings as the environment gives them
env_config(env) == [f \in RequiredSet |-> env[f]]

\* line 306: any(config_dict[field] is None for field in required_fields)
any_missing(d) == \E i \in 1..Len(required_fields) : d[required_fields[i]] = None

\* lines 313-315: the file fills the settings that are still None
merge_file(d, file) ==
  [f \in RequiredSet |-> IF d[f] = None THEN file[f] ELSE d[f]]

\* lines 287-317: config_dict when the validation starts; a file that is
\* missing or not JSON leaves it as the environment gave it
config_dict(env, file) ==
  LET d == env_config(env)
  IN IF any_missing(d) /\ file # None THEN merge_file(d, Val(file)) ELSE d

\* the validation naming the first missing field only
missing_of_first(d) ==
  LET all == SelectSeq(required_fields, LAMBDA f : d[f] = None)
  IN IF all = <<>> THEN <<>> ELSE <<Head(all)>>

\* lines 320-322: missing_fields, in the order of required_fields
missing_of(d) == SelectSeq(required_fields, LAMBDA f : d[f] = None)

\* lines 348-366: main calls load_config; with a field missing the
\* ValueError of line 324 ends main (lines 398-401) before any client
\* exists; otherwise since_id comes from the state file (lines 326-335),
\* the clients are built and the loop starts
LoadConfig ==
  /\ pc = "start"
  /\ LET missing == missing_of(config_dict(environ, config_file))
     IN IF missing # <<>>
        THEN /\ missing_fields' = missing
             /\ pc' = "done"
             /\ ev' = "config_error"
             /\ UNCHANGED <<running, since_id, config_since_id>>
        ELSE /\ missing_fields' = <<>>
             /\ pc' = EntryPoint(mode)
             /\ ev' = "config_loaded"
             /\ running' = TRUE
             /\ since_id' = state_file
             /\ config_since_id' = state_file
  /\ UNCHANGED <<feed, uploads, statuses, state_file, mode, reqSince,
                 lastFetch, notes, batch, cur, media_ids, fileIdx, outcomes,
                 newest_id, restarts, environ, config_file>>

\* ---- stream_notes (lines 90-106) ---------------------------------------

\* Loop with 'while True': the stop flag is never read
Loop_ignoresStop ==
  /\ pc = "loop"
  /\ pc' = "fetch"
  /\ ev' = "loop"
  /\ UNCHANGED <<notes, cfgvars>>
  /\ UNCHANGED <<feed, uploads, statuses, state_file, mode, running, since_id,
                 config_since_id, reqSince, lastFetch, batch, cur, media_ids,
                 fileIdx, outcomes, newest_id, restarts>>

\* line 94: while self._running; leaving the loop ends the generator, the
\* for loop of main and, through finally (lines 400-401), the process
Loop ==
  /\ pc = "loop"
  /\ IF running
     THEN /\ pc' = "fetch"
          /\ ev' = "loop"
          /\ UNCHANGED running
     ELSE /\ pc' = "done"
          /\ ev' = "stopped"
          /\ running' = FALSE
  /\ UNCHANGED <<notes, cfgvars>>
  /\ UNCHANGED <<feed, uploads, statuses, state_file, mode, since_id,
                 config_since_id, reqSince, lastFetch, batch, cur, media_ids,
                 fileIdx, outcomes, newest_id, restarts>>

\* line 96: get_user_notes(user_id, limit=10, since_id=since_id) returns
FetchOk ==
  /\ pc = "fetch"
  /\ \E order \in FeedOrders : batch' = get_user_notes(StreamLimit, since_id, order)
  /\ notes' = Ids(batch')
  /\ reqSince' = since_id
  /\ lastFetch' = "ok"
  /\ pc' = "iter"
  /\ ev' = "fetch_ok"
  /\ UNCHANGED cfgvars
  /\ UNCHANGED <<feed, uploads, statuses, state_file, mode, running, since_id,
                 config_since_id, cur, media_ids, fileIdx, outcomes, newest_id,
                 restarts>>

\* FetchFail forgetting the cursor in the except clause
FetchFail_resetCursor ==
  /\ pc = "fetch"
  /\ reqSince' = since_id
  /\ lastFetch' = "fail"
  /\ since_id' = None
  /\ pc' = "backoff"
  /\ ev' = "fetch_fail"
  /\ UNCHANGED <<notes, cfgvars>>
  /\ UNCHANGED <<feed, uploads, statuses, state_file, mode, running,
                 config_since_id, batch, cur, media_ids, fileIdx, outcomes,
                 newest_id, restarts>>

\* lines 96, 103-104: get_user_notes raises RequestException
FetchFail ==
  /\ pc = "fetch"
  /\ reqSince' = since_id
  /\ lastFetch' = "fail"
  /\ pc' = "backoff"
  /\ ev' = "fetch_fail"
  /\ UNCHANGED <<notes, cfgvars>>
  /\ UNCHANGED <<feed, uploads, statuses, state_file, mode, running, since_id,
                 config_since_id, batch, cur, media_ids, fileIdx, outcomes,
                 newest_id, restarts>>

\* lines 97-100: the for loop takes the next note and yields it to main
\* unless its id is the current since_id
ForNext ==
  /\ pc = "iter"
  /\ batch # <<>>
  /\ batch' = Tail(batch)
  /\ cur' = Some(Head(batch))
  /\ IF since_id = None \/ Head(batch).id # Val(since_id)
     THEN pc' = "check" /\ ev' = "yield"
     ELSE pc' = "iter" /\ ev' = "skip"
  /\ UNCHANGED <<notes, cfgvars>>
  /\ UNCHANGED <<feed, uploads, statuses, state_file, mode, running, since_id,
                 config_since_id, reqSince, lastFetch, media_ids, fileIdx,
                 outcomes, newest_id, restarts>>

\* ForEnd as a break after the first note: the rest of the list is dropped
ForEnd_break ==
  /\ pc = "iter"
  /\ pc' = "sleep"
  /\ ev' = "for_end"
  /\ UNCHANGED <<notes, cfgvars>>
  /\ UNCHANGED <<feed, uploads, statuses, state_file, mode, running, since_id,
                 config_since_id, reqSince, lastFetch, batch, cur, media_ids,
                 fileIdx, outcomes, newest_id, restarts>>

\* ForEnd with time.sleep(5) inside an else branch of 'if notes': a
\* non-empty list is followed by the next fetch at once
ForEnd_immediate ==
  /\ pc = "iter"
  /\ batch = <<>>
  /\ pc' = IF notes = <<>> THEN "sleep" ELSE "loop"
  /\ ev' = "for_end"
  /\ UNCHANGED <<notes, cfgvars>>
  /\ UNCHANGED <<feed, uploads, statuses, state_file, mode, running, since_id,
                 config_since_id, reqSince, lastFetch, batch, cur, media_ids,
                 fileIdx, outcomes, newest_id, restarts>>

\* lines 97-102: notes is empty or exhausted; time.sleep(5) is next
ForEnd ==
  /\ pc = "iter"
  /\ batch = <<>>
  /\ pc' = "sleep"
  /\ ev' = "for_end"
  /\ UNCHANGED <<notes, cfgvars>>
  /\ UNCHANGED <<feed, uploads, statuses, state_file, mode, running, since_id,
                 config_since_id, reqSince, lastFetch, batch, cur, media_ids,
                 fileIdx, outcomes, newest_id, restarts>>

\* line 102: time.sleep(5) returns
PollSleep ==
  /\ pc = "sleep"
  /\ pc' = "loop"
  /\ ev' = "sleep_5"
  /\ UNCHANGED <<notes, cfgvars>>
  /\ UNCHANGED <<feed, uploads, statuses, state_file, mode, running, since_id,
                 config_since_id, reqSince, lastFetch, batch, cur, media_ids,
                 fileIdx, outcomes, newest_id, restarts>>

\* lines 105-106: time.sleep(30) returns; continue
Backoff ==
  /\ pc = "backoff"
  /\ pc' = "loop"
  /\ ev' = "sleep_30"
  /\ UNCHANGED <<notes, cfgvars>>
  /\ UNCHANGED <<feed, uploads, statuses, state_file, mode, running, since_id,
                 config_since_id, reqSince, lastFetch, batch, cur, media_ids,
                 fileIdx, outcomes, newest_id, restarts>>

\* ---- the handling of one note (lines 367-392 and 251-276) --------------

\* where control goes once the try statement of one note is over
AfterPost(m) == IF m = "continuous" THEN "save" ELSE "b_iter"

\* lines 367-374 / 251-258: should_crosspost, media_ids = [], the files test
Check ==
  /\ pc = "check"
  /\ media_ids' = <<>>
  /\ outcomes' = <<>>
  /\ IF should_crosspost(Val(cur))
     THEN /\ ev' = "check_true"
          /\ IF has_files(Val(cur))
             THEN pc' = "file" /\ fileIdx' = 1
             ELSE pc' = "create" /\ fileIdx' = 0
     ELSE /\ ev' = "check_false"
          /\ pc' = AfterPost(mode)
          /\ fileIdx' = 0
  /\ UNCHANGED <<notes, cfgvars>>
  /\ UNCHANGED <<feed, uploads, statuses, state_file, mode, running, since_id,
                 config_since_id, reqSince, lastFetch, batch, cur, newest_id,
                 restarts>>

FileOutcomes == {"ok", "download_failed", "upload_failed"}

\* where process_misskey_files goes after the attachment at index i
AfterFile(note, i) == IF i < Len(Val(note.files)) THEN "file" ELSE "create"

\* ProcessFile with the try statement around the whole for loop: the first
\* failure ends the pipeline
ProcessFile_abort(outcome) ==
  /\ pc = "file"
  /\ LET file == Val(Val(cur).files)[fileIdx]
     IN IF outcome = "ok"
        THEN /\ uploads' = Append(uploads, file.url)
             /\ media_ids' = Append(media_ids, Len(uploads) + 1)
             /\ pc' = AfterFile(Val(cur), fileIdx)
        ELSE /\ UNCHANGED <<uploads, media_ids>>
             /\ pc' = "create"
  /\ outcomes' = Append(outcomes, outcome)
  /\ fileIdx' = fileIdx + 1
  /\ ev' = IF outcome = "ok" THEN "file_ok" ELSE "file_failed"
  /\ UNCHANGED <<notes, cfgvars>>
  /\ UNCHANGED <<feed, statuses, state_file, mode, running, since_id,
                 config_since_id, reqSince, lastFetch, batch, cur, newest_id,
                 restarts>>

\* lines 212-230: one round of the for loop of process_misskey_files:
\* download_attachment, upload_media, append media["id"], sleep(1); an
\* exception of either call is caught and the loop goes on
ProcessFile(outcome) ==
  /\ pc = "file"
  /\ LET file == Val(Val(cur).files)[fileIdx]
     IN IF outcome = "ok"
        THEN /\ uploads' = Append(uploads, file.url)
             /\ media_ids' = Append(media_ids, Len(uploads) + 1)
        ELSE UNCHANGED <<uploads, media_ids>>
  /\ outcomes' = Append(outcomes, outcome)
  /\ pc' = AfterFile(Val(cur), fileIdx)
  /\ fileIdx' = fileIdx + 1
  /\ ev' = IF outcome = "ok" THEN "file_ok" ELSE "file_failed"
  /\ UNCHANGED <<notes, cfgvars>>
  /\ UNCHANGED <<feed, statuses, state_file, mode, running, since_id,
                 config_since_id, reqSince, lastFetch, batch, cur, newest_id,
                 restarts>>

\* lines 377-386 / 261-270: create_status returns
CreateStatusOk ==
  /\ pc = "create"
  /\ statuses' = Append(statuses, status_data(Val(cur), media_ids))
  /\ pc' = "delay"
  /\ ev' = "create_ok"
  /\ UNCHANGED <<notes, cfgvars>>
  /\ UNCHANGED <<feed, uploads, state_file, mode, running, since_id,
                 config_since_id, reqSince, lastFetch, batch, cur, media_ids,
                 fileIdx, outcomes, newest_id, restarts>>

\* CreateStatusFail with the cursor update skipped for a failed note
CreateStatusFail_noSave ==
  /\ pc = "create"
  /\ pc' = IF mode = "continuous" THEN "iter" ELSE "b_iter"
  /\ ev' = "create_failed"
  /\ UNCHANGED <<notes, cfgvars>>
  /\ UNCHANGED <<feed, uploads, statuses, state_file, mode, running, since_id,
                 config_since_id, reqSince, lastFetch, batch, cur, media_ids,
                 fileIdx, outcomes, newest_id, restarts>>

\* CreateStatusFail without the inner try statement: the exception reaches
\* the except clause of main (lines 398-401) and the process ends
CreateStatusFail_raise ==
  /\ pc = "create"
  /\ pc' = "done"
  /\ running' = FALSE
  /\ ev' = "create_failed"
  /\ UNCHANGED <<notes, cfgvars>>
  /\ UNCHANGED <<feed, uploads, statuses, state_file, mode, since_id,
                 config_since_id, reqSince, lastFetch, batch, cur, media_ids,
                 fileIdx, outcomes, newest_id, restarts>>

\* lines 385, 391-392 / 269, 275-276: create_status raises; the except
\* clause prints and the try statement is over
CreateStatusFail ==
  /\ pc = "create"
  /\ pc' = AfterPost(mode)
  /\ ev' = "create_failed"
  /\ UNCHANGED <<notes, cfgvars>>
  /\ UNCHANGED <<feed, uploads, statuses, state_file, mode, running, since_id,
                 config_since_id, reqSince, lastFetch, batch, cur, media_ids,
                 fileIdx, outcomes, newest_id, restarts>>

\* lines 389 / 273: time.sleep(config.crosspost_delay) returns
Delay ==
  /\ pc = "delay"
  /\ pc' = AfterPost(mode)
  /\ ev' = "delay"
  /\ UNCHANGED <<notes, cfgvars>>
  /\ UNCHANGED <<feed, uploads, statuses, state_file, mode, running, since_id,
                 config_since_id, reqSince, lastFetch, batch, cur, media_ids,
                 fileIdx, outcomes, newest_id, restarts>>

\* lines 394-396, then line 101 when the generator is resumed
Save ==
  /\ pc = "save"
  /\ config_since_id' = Some(Val(cur).id)
  /\ state_file' = Some(Val(cur).id)
  /\ since_id' = Some(Val(cur).id)
  /\ pc' = "iter"
  /\ ev' = "saved"
  /\ UNCHANGED <<notes, cfgvars>>
  /\ UNCHANGED <<feed, uploads, statuses, mode, running, reqSince, lastFetch,
                 batch, cur, media_ids, fileIdx, outcomes, newest_id, restarts>>

\* ---- crosspost(config) (lines 235-279) ---------------------------------

\* lines 241-246: get_user_notes(user, fetch_limit, config.since_id) returns
BatchFetchOk ==
  /\ pc = "b_fetch"
  /\ \E order \in FeedOrders :
        batch' = get_user_notes(FetchLimitDefault, config_since_id, order)
  /\ notes' = Ids(batch')
  /\ reqSince' = config_since_id
  /\ lastFetch' = "ok"
  /\ newest_id' = None
  /\ pc' = "b_iter"
  /\ ev' = "fetch_ok"
  /\ UNCHANGED cfgvars
  /\ UNCHANGED <<feed, uploads, statuses, state_file, mode, running, since_id,
                 config_since_id, cur, media_ids, fileIdx, outcomes, restarts>>

\* lines 241-243: get_user_notes raises; nothing in crosspost catches it
BatchFetchFail ==
  /\ pc = "b_fetch"
  /\ reqSince' = config_since_id
  /\ lastFetch' = "fail"
  /\ pc' = "done"
  /\ ev' = "fetch_fail"
  /\ UNCHANGED <<notes, cfgvars>>
  /\ UNCHANGED <<feed, uploads, statuses, state_file, mode, running, since_id,
                 config_since_id, batch, cur, media_ids, fileIdx, outcomes,
                 newest_id, restarts>>

\* lines 247-249: the for loop takes the next note; the first one sets
\* newest_id
BatchNext ==
  /\ pc = "b_iter"
  /\ batch # <<>>
  /\ batch' = Tail(batch)
  /\ cur' = Some(Head(batch))
  /\ newest_id' = IF newest_id = None THEN Some(Head(batch).id) ELSE newest_id
  /\ pc' = "check"
  /\ ev' = "yield"
  /\ UNCHANGED <<notes, cfgvars>>
  /\ UNCHANGED <<feed, uploads, statuses, state_file, mode, running, since_id,
                 config_since_id, reqSince, lastFetch, media_ids, fileIdx,
                 outcomes, restarts>>

\* lines 278-279: return newest_id
BatchReturn ==
  /\ pc = "b_iter"
  /\ batch = <<>>
  /\ pc' = "done"
  /\ ev' = "returned"
  /\ UNCHANGED <<notes, cfgvars>>
  /\ UNCHANGED <<feed, uploads, statuses, state_file, mode, running, since_id,
                 config_since_id, reqSince, lastFetch, batch, cur, media_ids,
                 fileIdx, outcomes, newest_id, restarts>>

\* ---- specifications -----------------------------------------------------
Handle ==
  \/ Check
  \/ \E outcome \in FileOutcomes : ProcessFile(outcome)
  \/ CreateStatusOk
  \/ CreateStatusFail
  \/ Delay
  \/ Save

Next ==
  \/ Publish
  \/ Signal
  \/ Restart
  \/ Loop
  \/ FetchOk
  \/ FetchFail
  \/ ForNext
  \/ ForEnd
  \/ PollSleep
  \/ Backoff
  \/ Handle
  \/ BatchFetchOk
  \/ BatchFetchFail
  \/ BatchNext
  \/ BatchReturn

Spec == Init /\ [][Next]_vars

\* the handling of a single note of any shape, as main does it for a note
\* stream_notes has just yielded
InitPost ==
  /\ \E shape \in AllShapes :
        /\ feed = <<NoteOf(1, shape)>>
        /\ cur = Some(NoteOf(1, shape))
  /\ uploads = <<>>
  /\ statuses = <<>>
  /\ state_file = None
  /\ mode = "continuous"
  /\ pc = "check"
  /\ running = TRUE
  /\ since_id = None
  /\ config_since_id = None
  /\ reqSince = None
  /\ lastFetch = "ok"
  /\ batch = <<>>
  /\ media_ids = <<>>
  /\ fileIdx = 0
  /\ outcomes = <<>>
  /\ newest_id = None
  /\ ev = "yield"
  /\ restarts = 0
  /\ notes = <<1>>
  /\ environ = [f \in RequiredSet |-> Some("env")]
  /\ config_file = None
  /\ missing_fields = <<>>

SpecPost == InitPost /\ [][Handle]_vars

\* the steps of the program itself
Program ==
  \/ Loop
  \/ FetchOk
  \/ FetchFail
  \/ ForNext
  \/ ForEnd
  \/ PollSleep
  \/ Backoff
  \/ Handle

\* continuous mode left alone (no signal, no crash): every network call and
\* every sleep returns, so the single flow of control always takes its next
\* step
InitFair == Init /\ mode = "continuous"

NextFair == Publish \/ Program

FairSpec == InitFair /\ [][NextFair]_vars /\ WF_vars(Program)

\* continuous mode with the cancellation signal and no crash, under the
\* same fairness: every network call and every sleep returns
NextFairStop == Publish \/ Signal \/ Program

FairStopSpec == InitFair /\ [][NextFairStop]_vars /\ WF_vars(Program)

\* main from its first line, for every combination of settings present in
\* the environment and in the configuration file; one note with an
\* attachment waits at the source
InitConfig ==
  /\ environ \in [RequiredSet -> {None, Some("env")}]
  /\ config_file \in Opt([RequiredSet -> {None, Some("file")}])
  /\ missing_fields = <<>>
  /\ feed = <<NoteOf(1, [Plain EXCEPT !.files = Some(FileList(1))])>>
  /\ uploads = <<>>
  /\ statuses = <<>>
  /\ state_file = None
  /\ mode = "continuous"
  /\ pc = "start"
  /\ running = FALSE
  /\ since_id = None
  /\ config_since_id = None
  /\ reqSince = None
  /\ lastFetch = "none"
  /\ notes = <<>>
  /\ batch = <<>>
  /\ cur = None
  /\ media_ids = <<>>
  /\ fileIdx = 0
  /\ outcomes = <<>>
  /\ newest_id = None
  /\ ev = "start"
  /\ restarts = 0

NextConfig == LoadConfig \/ Program

SpecConfig == InitConfig /\ [][NextConfig]_vars

\* ---- vocabulary of the properties ---------------------------------------

\* the four rules of the eligibility filter, as the specification lists them
Eligible(n) ==
  /\ n.replyId = None
  /\ n.renoteId = None
  /\ (n.mentions = None \/ Len(Val(n.mentions)) = 0)
  /\ (n.text = None \/ \A i \in 1..Len(Val(n.text)) : Val(n.text)[i] # "@")

Continuous == mode = "continuous"

\* the destination has a status made from source note id
Created(id) == \E i \in 1..Len(statuses) : statuses[i].note = id

\* main is handling the note stream_notes yielded
Handling == pc \in {"check", "file", "create", "delay", "save"}

\* ---- C1 ------------------------------------------------------------------
\* C1: in continuous mode no source note has create_status succeed for it
\* more than once, whatever fetches, failures and restarts happen.
C1_NoDuplicateStatus ==
  Continuous =>
    \A i, j \in 1..Len(statuses) :
      i # j => statuses[i].note # statuses[j].note

C3_CursorMonotone ==
  [][state_file # None => Val(state_file') >= Val(state_file)]_vars

\* ---- C4 ------------------------------------------------------------------
\* C4: in continuous mode, once main has handled the note stream_notes
\* yielded (ineligible, crossposted or failed), that note's identifier is
\* the cursor in memory and in the state file before the generator goes on:
\* between two notes the persisted cursor is the identifier of the last
\* note handled.
C4_CursorIsLastHandled ==
  (Continuous /\ cur # None /\ ~Handling) =>
     /\ state_file = Some(Val(cur).id)
     /\ since_id = state_file
     /\ config_since_id = state_file

\* two eligible notes fetched oldest first by the first fetch, both
\* handled, neither crossposted: the cursor is the second one
C4_Witness ==
  /\ Continuous
  /\ ev = "saved"
  /\ restarts = 0
  /\ reqSince = None
  /\ batch = <<>>
  /\ Val(cur).id = 2
  /\ Eligible(feed[1])
  /\ Eligible(feed[2])
  /\ statuses = <<>>
  /\ state_file = Some(2)

\* ---- C5 ------------------------------------------------------------------
\* C5: in continuous mode a failed get_user_notes yields nothing, leaves
\* the cursor in memory and in the state file as they were and leads to the
\* long sleep; the loop is re-entered only through that sleep, and the next
\* fetch sends the sinceId the failed one sent.
C5_FetchFailureRetriesSameCursor ==
  [][Continuous =>
       /\ (pc = "fetch" /\ ev' = "fetch_fail") =>
             /\ pc' = "backoff"
             /\ since_id' = since_id
             /\ config_since_id' = config_since_id
             /\ state_file' = state_file
             /\ cur' = cur
             /\ batch' = <<>>
       /\ (pc' = "loop" /\ lastFetch' = "fail") => ev' = "sleep_30"
       /\ (pc = "fetch" /\ lastFetch = "fail" /\ pc' \in {"iter", "backoff"}) =>
             reqSince' = reqSince
    ]_vars

\* a fetch with a cursor failed, the backoff is over and the retry is next
C5_Witness ==
  /\ Continuous
  /\ pc = "fetch"
  /\ lastFetch = "fail"
  /\ since_id = Some(1)
  /\ reqSince = Some(1)
  /\ Len(feed) = 2

\* ---- C6 ------------------------------------------------------------------
\* C6: a failed download, upload or create_status leaves the engine
\* running inside the handling of the batch: the rest of the batch is
\* untouched, the stop flag is untouched, and continuous mode ends only at
\* the loop test once the stop flag is down.
C6_PostFailureContained ==
  [][/\ ((pc = "file" /\ ev' = "file_failed" /\ fileIdx' # fileIdx)
           \/ (pc = "create" /\ ev' = "create_failed")) =>
          /\ pc' \in {"file", "create", "save", "b_iter"}
          /\ batch' = batch
          /\ running' = running
          /\ cur' = cur
     /\ (Continuous /\ pc # "done" /\ pc' = "done") => (pc = "loop" /\ ~running)
    ]_vars

\* the first note's create_status failed and the second note of the feed
\* was crossposted after it
C6_Witness ==
  /\ Continuous
  /\ restarts = 0
  /\ ev = "create_ok"
  /\ Eligible(feed[1])
  /\ Len(statuses) = 1
  /\ statuses[1].note = 2
  /\ state_file = Some(1)

\* ---- C7 ------------------------------------------------------------------
\* C7: should_crosspost answers true exactly for the notes with no reply
\* target, no renote target, no mention and no '@' in the text.
C7_FilterIsTheFourRules ==
  ev \in {"check_true", "check_false"} =>
    ((ev = "check_true") <=> Eligible(Val(cur)))

\* excluded by the '@' heuristic alone
C7_Witness ==
  /\ ev = "check_false"
  /\ Val(cur).replyId = None
  /\ Val(cur).renoteId = None
  /\ Val(cur).mentions = Some(<<>>)
  /\ Val(cur).text = Some(<<"h", "@">>)

\* ---- C8 ------------------------------------------------------------------
\* C8: in both modes attachments are transferred and statuses created only
\* for notes that pass the four rules.
C8_OnlyEligibleCrossposted ==
  /\ pc \in {"file", "create", "delay"} => Eligible(Val(cur))
  /\ \A i \in 1..Len(statuses) : Eligible(feed[statuses[i].note])

\* batch mode skipped an ineligible note after having crossposted another
C8_Witness ==
  /\ mode = "batch"
  /\ ev = "check_false"
  /\ ~Eligible(Val(cur))
  /\ Len(statuses) = 1

\* ---- C9 ------------------------------------------------------------------
\* the mapping table of the specification
MappedVisibility(v) ==
  CASE v = Some("public") -> "public"
    [] v = Some("followers") -> "private"
    [] v = Some("specified") -> "direct"
    [] v = Some("home") -> "unlisted"
    [] OTHER -> "public"

\* C9: every status carries the visibility the table gives for its note
\* (public for anything else, a missing visibility included) and the note's
\* content warning, no spoiler text when the note has none.
C9_StatusVisibilityAndWarning ==
  \A i \in 1..Len(statuses) :
    LET s == statuses[i]
        n == feed[s.note]
    IN /\ s.visibility = MappedVisibility(n.visibility)
       /\ s.spoiler_text = (IF n.cw = None \/ n.cw = Some("") THEN None ELSE n.cw)

\* the end-to-end scenario: home, no warning, no files
C9_Witness ==
  /\ Len(statuses) = 1
  /\ feed[1].visibility = Some("home")
  /\ feed[1].cw = None
  /\ statuses[1].visibility = "unlisted"
  /\ statuses[1].status = <<"h">>
  /\ statuses[1].media_ids = None
  /\ statuses[1].spoiler_text = None

\* ---- C10 -----------------------------------------------------------------
\* the indices of the attachments transferred so far
OkIndices ==
  SelectSeq([i \in 1..Len(outcomes) |-> i], LAMBDA i : outcomes[i] = "ok")

\* C10: attachments are tried one by one in their order, media_ids holds
\* the media of exactly those transferred, in that order; a failure skips
\* one attachment only, and create_status follows with the ids collected.
C10_MediaIdsAreTheTransferred ==
  cur # None =>
    /\ Len(media_ids) = Len(OkIndices)
    /\ \A k \in 1..Len(media_ids) :
         uploads[media_ids[k]] = Val(Val(cur).files)[OkIndices[k]].url
    /\ pc = "file" => Len(outcomes) = fileIdx - 1
    /\ ev \in {"file_ok", "file_failed"} => pc \in {"file", "create"}
    /\ (pc = "create" /\ has_files(Val(cur))) =>
         Len(outcomes) = Len(Val(Val(cur).files))
    /\ ev = "create_ok" =>
         statuses[Len(statuses)].media_ids =
           (IF media_ids = <<>> THEN None ELSE Some(media_ids))

\* three attachments, the second download failed, the note was crossposted
\* with the media of the first and the third
C10_Witness ==
  /\ outcomes = <<"ok", "download_failed", "ok">>
  /\ ev = "create_ok"
  /\ uploads = <<1, 3>>
  /\ statuses[1].media_ids = Some(<<1, 2>>)

\* ---- C11 -----------------------------------------------------------------
\* C11: once stop_streaming has been called the engine hands no further
\* note to main and starts no further sleep (poll sleep, backoff, the pause
\* after a crosspost) before it stops.
C11_StopHonouredAtOnce ==
  [][(Continuous /\ ~running /\ pc # "done") =>
       /\ ~(pc = "iter" /\ ev' = "yield" /\ pc' = "check")
       /\ ~(pc' \in {"sleep", "backoff", "delay"} /\ pc' # pc)
    ]_vars

\* ---- C12 -----------------------------------------------------------------
\* C12: in continuous mode, whatever the engine is doing when
\* stop_streaming is called, stream_notes ends and main exits, provided the
\* network calls and sleeps return.
C12_StopLeadsToStopped ==
  (Continuous /\ ~running) ~> (pc = "done")

\* stopped by a signal that arrived while the engine was backing off or
\* fetching: the last fetch failed
C12_Witness ==
  /\ Continuous
  /\ pc = "done"
  /\ ev = "stopped"
  /\ lastFetch = "fail"
  /\ Len(statuses) = 1

\* ---- C13 -----------------------------------------------------------------
Increasing(ids) == \A i \in 1..(Len(ids) - 1) : ids[i] < ids[i + 1]

\* C13: crosspost(config) returns the greatest identifier of the list it
\* fetched when that list is in increasing order, whatever happened to the
\* notes.
C13_ReturnsGreatestId ==
  (mode = "batch" /\ ev = "returned" /\ notes # <<>> /\ Increasing(notes)) =>
     newest_id = Some(notes[Len(notes)])

\* ---- C14 -----------------------------------------------------------------
\* the cursor the running loop holds: stream_notes' since_id, or
\* config.since_id in crosspost
CursorInForce == IF Continuous THEN since_id ELSE config_since_id

\* C14: every note handed to the handling code is strictly newer than the
\* cursor in force at that moment.
C14_YieldedNewerThanCursor ==
  (pc = "check" /\ ev = "yield") =>
     (CursorInForce = None \/ Val(cur).id > Val(CursorInForce))

\* ---- C15 -----------------------------------------------------------------
\* C15: the pause time.sleep(crosspost_delay) follows every create_status
\* call, failed ones included.
C15_PauseAfterEveryAttempt ==
  [][(pc = "create" /\ ev' \in {"create_ok", "create_failed"}) => pc' = "delay"]_vars

\* ---- C16 -----------------------------------------------------------------
\* C16: within one run the statuses are created in the order of the source
\* identifiers.
C16_StatusesInSourceOrder ==
  restarts = 0 =>
    \A i, j \in 1..Len(statuses) :
      i < j => statuses[i].note < statuses[j].note

\* ---- C17 -----------------------------------------------------------------
\* C17: a fetch is issued only when the list of the previous one is used
\* up and its last note handled down to the cursor save, and the one note
\* main is handling is no longer in the list.
C17_OneNoteAtATime ==
  /\ pc \notin {"iter", "b_iter", "check", "file", "create", "delay", "save"} =>
        batch = <<>>
  /\ (pc = "fetch" /\ lastFetch = "ok" /\ notes # <<>>) =>
        /\ cur # None
        /\ Val(cur).id = notes[Len(notes)]
        /\ state_file = Some(notes[Len(notes)])
  /\ Handling =>
        /\ cur # None
        /\ \A i \in 1..Len(batch) : batch[i].id # Val(cur).id

\* a list of two notes handled, both crossposted, the next fetch is due
C17_Witness ==
  /\ Continuous
  /\ restarts = 0
  /\ pc = "fetch"
  /\ lastFetch = "ok"
  /\ Len(notes) = 2
  /\ Len(statuses) = 2

\* ---- C19 -----------------------------------------------------------------
\* C19 (as stated): the short sleep is entered only after an empty poll and
\* the long one only after a failed fetch.
C19_ShortSleepOnlyAfterEmptyPoll ==
  [][Continuous =>
       /\ (pc' = "sleep" /\ pc # "sleep") => notes = <<>>
       /\ (pc' = "backoff" /\ pc # "backoff") => ev' = "fetch_fail"
    ]_vars

\* C19 (amended): the short sleep follows every successful fetch once its
\* list, empty or not, is used up; the long one follows a failed fetch and
\* nothing else; the loop test, hence the next fetch, is reached only
\* through one of the two sleeps.
C19_SleepAfterEveryFetch ==
  [][Continuous =>
       /\ (pc' = "sleep" /\ pc # "sleep") =>
             (pc = "iter" /\ batch = <<>> /\ lastFetch = "ok")
       /\ (pc' = "backoff" /\ pc # "backoff") =>
             (pc = "fetch" /\ ev' = "fetch_fail")
       /\ (pc' = "loop" /\ pc # "loop" /\ restarts' = restarts) =>
             ev' \in {"sleep_5", "sleep_30"}
       /\ (pc = "iter" /\ batch = <<>> /\ pc' # pc /\ restarts' = restarts) =>
             pc' = "sleep"
    ]_vars

\* the short sleep is over after a fetch that returned notes
C19_Witness ==
  /\ Continuous
  /\ pc = "loop"
  /\ ev = "sleep_5"
  /\ lastFetch = "ok"
  /\ notes # <<>>
  /\ Len(statuses) = 1

\* ---- C20 -----------------------------------------------------------------
\* C20: in continuous mode every fetch sends the cursor of the state file
\* (none when there is none), and the state file changes only when main
\* saves the identifier of the note it has just handled: after a crash the
\* first fetch resumes from the last note handled, crossposted or not.
C20_FetchSendsPersistedCursor ==
  [][Continuous =>
       /\ (pc = "fetch" /\ pc' \in {"iter", "backoff"}) => reqSince' = state_file
       /\ state_file' # state_file =>
             /\ pc = "save"
             /\ pc' = "iter"
             /\ state_file' = Some(Val(cur).id)
    ]_vars

\* after a crash a fetch was sent with the identifier of note 2, whose
\* crosspost had failed
C20_Witness ==
  /\ Continuous
  /\ restarts = 1
  /\ ev = "fetch_ok"
  /\ reqSince = Some(2)
  /\ Eligible(feed[2])
  /\ ~Created(2)

\* ---- C18 -----------------------------------------------------------------
\* the required settings that neither the environment nor the file gives
ActuallyMissing ==
  {f \in RequiredSet :
     environ[f] = None /\ (config_file = None \/ Val(config_file)[f] = None)}

\* C18: with a required setting missing, load_config fails naming every
\* missing field, and the process ends having fetched, transferred,
\* created and saved nothing.
C18_MissingConfigIsFatal ==
  ActuallyMissing # {} =>
    /\ pc \in {"start", "done"}
    /\ pc = "done" =>
         /\ ev = "config_error"
         /\ {missing_fields[i] : i \in 1..Len(missing_fields)} = ActuallyMissing
         /\ Len(missing_fields) = Cardinality(ActuallyMissing)
    /\ lastFetch = "none"
    /\ reqSince = None
    /\ outcomes = <<>>
    /\ uploads = <<>>
    /\ statuses = <<>>
    /\ state_file = None

\* the file supplies some settings, two are still missing and are named
C18_Witness ==
  /\ pc = "done"
  /\ ev = "config_error"
  /\ config_file # None
  /\ \E f \in RequiredSet : environ[f] = None /\ Val(config_file)[f] # None
  /\ Len(missing_fields) = 2

====
